---- MODULE Spec2Model ----
(***************************************************************************)
(* Model of the Cloud Build -> Discord notifier (main.go): SetUp, the      *)
(* dispatch gate and delivery of SendNotification, the status-to-embed     *)
(* mapping of buildMessage and the secondary GET of callDojo.              *)
(*                                                                         *)
(* A Go string is a sequence of characters.  An ASCII character is the     *)
(* one-character string; a non-ASCII character is written by its code      *)
(* point ("U+2705").  The empty string is << >>.                           *)
(***************************************************************************)
EXTENDS Integers, Sequences, FiniteSets, TLC

VARIABLES
    pc,             \* "start" | "fatal" | "serving" | "dojo" | "post" | "returned"
    config,         \* what SetUp was given
    filter,         \* discordNotifier.filter: "nil" or "prd"
    webhookURL,     \* discordNotifier.webhookURL
    setUpErr,       \* what SetUp returned ("unset" before it ran)
    build,          \* the build of the SendNotification call in progress / last made
    filterApplies,  \* what s.filter.Apply(ctx, build) yields for that build
    DOJO_URL,       \* os.Getenv("DOJO_URL") during that call
    rendered,       \* buildMessage was entered during that call
    marshalled,     \* json.Marshal was called during that call
    msg,            \* the *discordMessage buildMessage returned
    payload,        \* the bytes json.Marshal returned
    calls,          \* outbound HTTP requests of that call, in issue order
    dojoOutcome,    \* how http.Get ended: "none" | "ok" | "error"
    postOutcome,    \* how http.Post ended
    ret,            \* what SendNotification returned ("pending" while running)
    nEvents         \* SendNotification calls made so far

vars == <<pc, config, filter, webhookURL, setUpErr, build, filterApplies, DOJO_URL, rendered,
          marshalled, msg, payload, calls, dojoOutcome, postOutcome, ret, nEvents>>

\* Number of build events the framework hands to one notifier instance.
MaxEvents == 2

-----------------------------------------------------------------------------
(* Strings *)

EmptyString == << >>

\* strings.Contains(s, substr)
Contains(s, substr) ==
    \E i \in 0..(Len(s) - Len(substr)) : SubSeq(s, i + 1, i + Len(substr)) = substr

RECURSIVE Concat(_)
Concat(ss) == IF ss = << >> THEN << >> ELSE Head(ss) \o Concat(Tail(ss))

Digits == <<"0", "1", "2", "3", "4", "5", "6", "7", "8", "9">>

\* decimal rendering of a non-negative int, as encoding/json writes it
RECURSIVE Itoa(_)
Itoa(n) == IF n < 10 THEN <<Digits[n + 1]>> ELSE Itoa(n \div 10) \o <<Digits[(n % 10) + 1]>>

\* encoding/json string escaping (HTML-safe, the json.Marshal default)
EscapeChar(c) ==
    CASE c = "\"" -> <<"\\", "\"">>
      [] c = "\\" -> <<"\\", "\\">>
      [] c = "\n" -> <<"\\", "n">>
      [] c = "<"  -> <<"\\", "u", "0", "0", "3", "c">>
      [] c = ">"  -> <<"\\", "u", "0", "0", "3", "e">>
      [] c = "&"  -> <<"\\", "u", "0", "0", "2", "6">>
      [] OTHER    -> <<c>>

\* the escapes of s[lo..hi], in order
RECURSIVE EscapeRange(_, _, _)
EscapeRange(s, lo, hi) ==
    IF lo > hi THEN << >>
    ELSE IF lo = hi THEN EscapeChar(s[lo])
    ELSE LET mid == (lo + hi) \div 2
         IN  EscapeRange(s, lo, mid) \o EscapeRange(s, mid + 1, hi)

Escape(s) == EscapeRange(s, 1, Len(s))

Quote(s) == <<"\"">> \o Escape(s) \o <<"\"">>

-----------------------------------------------------------------------------
(* cbpb.Build *)

\* cbpb.Build_Status, by name
Statuses == {"STATUS_UNKNOWN", "PENDING", "QUEUED", "WORKING", "SUCCESS", "FAILURE",
             "INTERNAL_ERROR", "TIMEOUT", "CANCELLED", "EXPIRED"}

\* Build_Status.String(), what %s prints
StatusName(st) ==
    CASE st = "STATUS_UNKNOWN" -> <<"S", "T", "A", "T", "U", "S", "_", "U", "N", "K", "N", "O", "W", "N">>
      [] st = "PENDING"        -> <<"P", "E", "N", "D", "I", "N", "G">>
      [] st = "QUEUED"         -> <<"Q", "U", "E", "U", "E", "D">>
      [] st = "WORKING"        -> <<"W", "O", "R", "K", "I", "N", "G">>
      [] st = "SUCCESS"        -> <<"S", "U", "C", "C", "E", "S", "S">>
      [] st = "FAILURE"        -> <<"F", "A", "I", "L", "U", "R", "E">>
      [] st = "INTERNAL_ERROR" -> <<"I", "N", "T", "E", "R", "N", "A", "L", "_", "E", "R", "R", "O", "R">>
      [] st = "TIMEOUT"        -> <<"T", "I", "M", "E", "O", "U", "T">>
      [] st = "CANCELLED"      -> <<"C", "A", "N", "C", "E", "L", "L", "E", "D">>
      [] st = "EXPIRED"        -> <<"E", "X", "P", "I", "R", "E", "D">>

\* build.Source: nil, a source that is no repo source, or a RepoSource with its name
NoSource == [kind |-> "nil", RepoName |-> EmptyString]
StorageSource == [kind |-> "storage", RepoName |-> EmptyString]
RepoSource(name) == [kind |-> "repo", RepoName |-> name]

RepoNames == {EmptyString, <<"R">>, <<"m", "y", "-", "o", "r", "g", "/", "m", "y", "&", "r", "e", "p", "o">>}
Sources == {NoSource, StorageSource} \cup {RepoSource(n) : n \in RepoNames}

AppNames == {EmptyString, <<"m", "y", "-", "a", "p", "p">>, <<"m", "y", "-", "b", "a", "c", "k", "e", "n", "d", "-", "s", "v", "c">>, <<"m", "y", "-", "f", "r", "o", "n", "t", "e", "n", "d", "-", "s", "v", "c">>, <<"m", "y", "-", "B", "a", "c", "k", "e", "n", "d", "-", "s", "v", "c">>}
Urls == {<<"h", "t", "t", "p", "s", ":", "/", "/", "s", "o", "m", "e", ".", "e", "x", "a", "m", "p", "l", "e", ".", "c", "o", "m">>}

\* build.Substitutions: a map; a key may be absent
SubstitutionMaps ==
    {[k \in D |-> IF k = "_APP_NAME" THEN a ELSE u] :
        D \in SUBSET {"_APP_NAME", "_URL"}, a \in AppNames, u \in Urls}

\* m[k] of a Go map[string]string: the zero value for an absent key
Lookup(m, k) == IF k \in DOMAIN m THEN m[k] ELSE EmptyString

Builds ==
    [Id : {<<"s", "o", "m", "e", "-", "b", "u", "i", "l", "d", "-", "i", "d">>},
     ProjectId : {<<"m", "y", "-", "p", "r", "o", "j", "e", "c", "t", "-", "i", "d">>},
     LogUrl : {<<"h", "t", "t", "p", "s", ":", "/", "/", "s", "o", "m", "e", ".", "e", "x", "a", "m", "p", "l", "e", ".", "c", "o", "m", "/", "l", "o", "g", "/", "u", "r", "l", "?", "f", "o", "o", "=", "b", "a", "r">>},
     Status : Statuses,
     Substitutions : SubstitutionMaps,
     Source : Sources]

NoBuild ==
    [Id |-> EmptyString, ProjectId |-> EmptyString, LogUrl |-> EmptyString,
     Status |-> "STATUS_UNKNOWN", Substitutions |-> << >>, Source |-> NoSource]

\* build.Source.GetRepoSource() != nil
HasRepoSource(b) == b.Source.kind = "repo"

-----------------------------------------------------------------------------
(* discordMessage, embed and buildMessage *)

WorkingColor == 1027128
SuccessColor == 1127128
ErrorColor == 14177041

NilMessage == [isNil |-> TRUE, Content |-> EmptyString, Embeds |-> << >>]

\* the four lines shared by every case of the switch
BaseDescription(b) ==
    Concat(<<<<"B", "u", "i", "l", "d", " ", "I", "D", ":", " ">>, b.Id,
             <<"\n", "S", "e", "r", "v", "i", "c", "e", ":", " ">>, Lookup(b.Substitutions, "_APP_NAME"),
             <<"\n", "E", "n", "v", "i", "r", "o", "n", "m", "e", "n", "t", ":", " ">>, b.ProjectId,
             <<"\n", "L", "o", "g", "s", ":", " ">>, b.LogUrl>>)

\* StatusEmbeds with the Access line left off the SUCCESS body
StatusEmbedsNoAccess(b) ==
    CASE b.Status = "WORKING" ->
            <<[Title |-> <<"U+1F528", " ", "B", "U", "I", "L", "D", "I", "N", "G">>, Color |-> WorkingColor,
               Description |-> BaseDescription(b)]>>
      [] b.Status = "SUCCESS" ->
            <<[Title |-> <<"U+2705", " ", "S", "U", "C", "C", "E", "S", "S">>, Color |-> SuccessColor,
               Description |-> BaseDescription(b)]>>
      [] b.Status \in {"FAILURE", "INTERNAL_ERROR", "TIMEOUT"} ->
            <<[Title |-> <<"U+274C", " ", "E", "R", "R", "O", "R", " ", "-", " ">> \o StatusName(b.Status), Color |-> ErrorColor,
               Description |-> BaseDescription(b)]>>
      [] OTHER -> << >>

\* StatusEmbeds with CANCELLED and EXPIRED added to the error case
StatusEmbedsMoreErrors(b) ==
    CASE b.Status = "WORKING" ->
            <<[Title |-> <<"U+1F528", " ", "B", "U", "I", "L", "D", "I", "N", "G">>, Color |-> WorkingColor,
               Description |-> BaseDescription(b)]>>
      [] b.Status = "SUCCESS" ->
            <<[Title |-> <<"U+2705", " ", "S", "U", "C", "C", "E", "S", "S">>, Color |-> SuccessColor,
               Description |-> BaseDescription(b) \o <<"\n", "A", "c", "c", "e", "s", "s", ":", " ">>
                                   \o Lookup(b.Substitutions, "_URL")]>>
      [] b.Status \in {"FAILURE", "INTERNAL_ERROR", "TIMEOUT", "CANCELLED", "EXPIRED"} ->
            <<[Title |-> <<"U+274C", " ", "E", "R", "R", "O", "R", " ", "-", " ">> \o StatusName(b.Status), Color |-> ErrorColor,
               Description |-> BaseDescription(b)]>>
      [] OTHER -> << >>

\* the switch on build.Status: the embeds appended by the matching case
StatusEmbeds(b) ==
    CASE b.Status = "WORKING" ->
            <<[Title |-> <<"U+1F528", " ", "B", "U", "I", "L", "D", "I", "N", "G">>, Color |-> WorkingColor,
               Description |-> BaseDescription(b)]>>
      [] b.Status = "SUCCESS" ->
            <<[Title |-> <<"U+2705", " ", "S", "U", "C", "C", "E", "S", "S">>, Color |-> SuccessColor,
               Description |-> BaseDescription(b) \o <<"\n", "A", "c", "c", "e", "s", "s", ":", " ">>
                                   \o Lookup(b.Substitutions, "_URL")]>>
      [] b.Status \in {"FAILURE", "INTERNAL_ERROR", "TIMEOUT"} ->
            <<[Title |-> <<"U+274C", " ", "E", "R", "R", "O", "R", " ", "-", " ">> \o StatusName(b.Status), Color |-> ErrorColor,
               Description |-> BaseDescription(b)]>>
      [] OTHER -> << >>

\* CallsDojo matching the whole _APP_NAME instead of a substring
CallsDojoExactName(b) ==
    /\ b.Status = "SUCCESS"
    /\ Lookup(b.Substitutions, "_APP_NAME") = <<"b", "a", "c", "k", "e", "n", "d">>

\* the SUCCESS case calls callDojo() when _APP_NAME contains "backend"
CallsDojo(b) ==
    /\ b.Status = "SUCCESS"
    /\ Contains(Lookup(b.Substitutions, "_APP_NAME"), <<"b", "a", "c", "k", "e", "n", "d">>)

\* callDojo issues its http.Get only for a non-empty DOJO_URL
DojoGetIssued(b, dojoURL) == CallsDojo(b) /\ dojoURL # EmptyString

\* buildMessage appending the repository name to the description
buildMessageAppendsRepo(b, dojo) ==
    LET sourceText == IF HasRepoSource(b) THEN b.Source.RepoName ELSE EmptyString
        embeds == StatusEmbeds(b)
        overlaid == IF Len(embeds) > 0 /\ Len(sourceText) > 0
                    THEN [embeds EXCEPT ![1].Description = @ \o <<"\n">> \o sourceText]
                    ELSE embeds
    IN  IF Len(overlaid) = 0
        THEN [msg |-> NilMessage, err |-> "nil"]
        ELSE [msg |-> [isNil |-> FALSE, Content |-> EmptyString, Embeds |-> overlaid],
              err |-> "nil"]

\* buildMessage handing a failed callDojo up as its own error
buildMessageDojoErrorFails(b, dojo) ==
    LET sourceText == IF HasRepoSource(b) THEN b.Source.RepoName ELSE EmptyString
        embeds == StatusEmbeds(b)
        overlaid == IF Len(embeds) > 0 /\ Len(sourceText) > 0
                    THEN [embeds EXCEPT ![1].Description = sourceText]
                    ELSE embeds
    IN  IF dojo = "error"
        THEN [msg |-> NilMessage, err |-> "Failed to call dojo"]
        ELSE IF Len(overlaid) = 0
        THEN [msg |-> NilMessage, err |-> "nil"]
        ELSE [msg |-> [isNil |-> FALSE, Content |-> EmptyString, Embeds |-> overlaid],
              err |-> "nil"]

\* buildMessage's result.  dojo is how the callDojo() inside it ended ("none" when no
\* GET was made, "ok", "error"); callDojo returns nothing, so the result ignores it.
buildMessage(b, dojo) ==
    LET sourceText == IF HasRepoSource(b) THEN b.Source.RepoName ELSE EmptyString
        embeds == StatusEmbeds(b)
        overlaid == IF Len(embeds) > 0 /\ Len(sourceText) > 0
                    THEN [embeds EXCEPT ![1].Description = sourceText]
                    ELSE embeds
    IN  IF Len(overlaid) = 0
        THEN [msg |-> NilMessage, err |-> "nil"]
        ELSE [msg |-> [isNil |-> FALSE, Content |-> EmptyString, Embeds |-> overlaid],
              err |-> "nil"]

-----------------------------------------------------------------------------
(* json.Marshal of a discordMessage *)

MarshalEmbed(e) ==
    Concat(<<<<"{", "\"", "t", "i", "t", "l", "e", "\"", ":">>, Quote(e.Title),
             <<",", "\"", "c", "o", "l", "o", "r", "\"", ":">>, Itoa(e.Color),
             <<",", "\"", "d", "e", "s", "c", "r", "i", "p", "t", "i", "o", "n", "\"", ":">>, Quote(e.Description), <<"}">>>>)

RECURSIVE JoinEmbeds(_)
JoinEmbeds(es) ==
    IF Len(es) = 1 THEN MarshalEmbed(es[1])
    ELSE MarshalEmbed(es[1]) \o <<",">> \o JoinEmbeds(Tail(es))

\* a nil slice encodes as null
MarshalEmbeds(es) == IF Len(es) = 0 THEN <<"n", "u", "l", "l">> ELSE <<"[">> \o JoinEmbeds(es) \o <<"]">>

\* strings and ints always encode: the error is always nil
Marshal(m) ==
    [payload |-> Concat(<<<<"{", "\"", "c", "o", "n", "t", "e", "n", "t", "\"", ":">>, Quote(m.Content),
                          <<",", "\"", "e", "m", "b", "e", "d", "s", "\"", ":">>, MarshalEmbeds(m.Embeds), <<"}">>>>),
     err |-> "nil"]

-----------------------------------------------------------------------------
(* SetUp *)

WebhookSecrets == {<<"h", "t", "t", "p", "s", ":", "/", "/", "d", "i", "s", "c", "o", "r", "d", ".", "e", "x", "a", "m", "p", "l", "e", "/", "a", "p", "i", "/", "w", "e", "b", "h", "o", "o", "k", "s", "/", "1">>}

\* What SetUp is given: the configured filter expression ("" for none, else whether
\* MakeCELPredicate accepts it), whether GetSecretRef and FindSecretResourceName
\* succeed, and what sg.GetSecret yields.
SetUpInputs ==
    [Filter : {"", "valid", "invalid"},
     refOk : BOOLEAN,
     resourceOk : BOOLEAN,
     secretOk : BOOLEAN,
     secret : WebhookSecrets]

\* SetUp going on after FindSecretResourceName failed
SetUpSkipsResourceCheck(in) ==
    LET f == IF in.Filter # "" /\ in.Filter # "invalid" THEN "prd" ELSE "nil"
    IN  IF in.Filter = "invalid"
        THEN [filter |-> "nil", webhookURL |-> EmptyString,
              err |-> "failed to make a CEL predicate"]
        ELSE IF ~in.refOk
        THEN [filter |-> f, webhookURL |-> EmptyString,
              err |-> "failed to get Secret ref from delivery config"]
        ELSE IF ~in.secretOk
        THEN [filter |-> f, webhookURL |-> EmptyString,
              err |-> "failed to get token secret"]
        ELSE [filter |-> f, webhookURL |-> in.secret, err |-> "nil"]

\* SetUp run on a new(discordNotifier): the notifier's fields afterwards and the error
SetUp(in) ==
    LET f == IF in.Filter # "" /\ in.Filter # "invalid" THEN "prd" ELSE "nil"
    IN  IF in.Filter = "invalid"
        THEN [filter |-> "nil", webhookURL |-> EmptyString,
              err |-> "failed to make a CEL predicate"]
        ELSE IF ~in.refOk
        THEN [filter |-> f, webhookURL |-> EmptyString,
              err |-> "failed to get Secret ref from delivery config"]
        ELSE IF ~in.resourceOk
        THEN [filter |-> f, webhookURL |-> EmptyString,
              err |-> "failed to find Secret for ref"]
        ELSE IF ~in.secretOk
        THEN [filter |-> f, webhookURL |-> EmptyString,
              err |-> "failed to get token secret"]
        ELSE [filter |-> f, webhookURL |-> in.secret, err |-> "nil"]

-----------------------------------------------------------------------------
(* State machine *)

NoPost == [err |-> FALSE, status |-> 0]

\* How http.Post can end: a transport error, or a response with some status code
PostOutcomes ==
    {[err |-> TRUE, status |-> 0]} \cup {[err |-> FALSE, status |-> s] : s \in {204, 404, 500}}

\* How the http.Get of callDojo can end once it returns
DojoOutcomes == {"ok", "error"}

DojoURLs == {EmptyString, <<"h", "t", "t", "p", "s", ":", "/", "/", "d", "o", "j", "o", ".", "e", "x", "a", "m", "p", "l", "e", "/", "h", "o", "o", "k">>}

NoConfig ==
    [Filter |-> "", refOk |-> FALSE, resourceOk |-> FALSE, secretOk |-> FALSE,
     secret |-> EmptyString]

Get(url) == [method |-> "GET", url |-> url, contentType |-> "", body |-> EmptyString]
Post(url, body) ==
    [method |-> "POST", url |-> url, contentType |-> "application/json", body |-> body]

Init ==
    /\ pc = "start"
    /\ config = NoConfig
    /\ filter = "nil"
    /\ webhookURL = EmptyString
    /\ setUpErr = "unset"
    /\ build = NoBuild
    /\ filterApplies = FALSE
    /\ DOJO_URL = EmptyString
    /\ rendered = FALSE
    /\ marshalled = FALSE
    /\ msg = NilMessage
    /\ payload = EmptyString
    /\ calls = << >>
    /\ dojoOutcome = "none"
    /\ postOutcome = NoPost
    /\ ret = "none"
    /\ nEvents = 0

callVars == <<build, filterApplies, DOJO_URL, rendered, marshalled, msg, payload, calls,
              dojoOutcome, postOutcome, ret>>

\* main: notifiers.Main runs SetUp once; an error is fatal
Main(in) ==
    /\ pc = "start"
    /\ config' = in
    /\ LET r == SetUp(in)
       IN  /\ filter' = r.filter
           /\ webhookURL' = r.webhookURL
           /\ setUpErr' = r.err
           /\ pc' = IF r.err = "nil" THEN "serving" ELSE "fatal"
    /\ UNCHANGED <<callVars, nEvents>>

\* Gate without the filter check
GateIgnoresFilter(f, applies, b) == Lookup(b.Substitutions, "_APP_NAME") # EmptyString

\* the dispatch gate at the top of SendNotification
Gate(f, applies, b) ==
    /\ ~(f # "nil" /\ applies)
    /\ Lookup(b.Substitutions, "_APP_NAME") # EmptyString

\* the POST put ahead of the requests already issued
IssuePostFirst(issued, url, body) == <<Post(url, body)>> \o issued

\* a response with a failure status turned into an error
PostResultChecksStatus(outcome) ==
    IF outcome.err \/ outcome.status >= 300 THEN "post error" ELSE "nil"

\* http.Post is the next request issued after those in issued
IssuePost(issued, url, body) == Append(issued, Post(url, body))

\* what SendNotification returns once http.Post has ended: the response is only logged
PostResult(outcome) == IF outcome.err THEN "post error" ELSE "nil"

\* SendNotification from the return of callDojo (or from the point where it would
\* have been called) up to the http.Post, or to the return when there is none
Deliver(b, dojo, issued) ==
    LET r == buildMessage(b, dojo)
        j == Marshal(r.msg)
    IN  /\ msg' = r.msg
        /\ dojoOutcome' = dojo
        /\ postOutcome' = NoPost
        /\ IF r.err # "nil"
           THEN /\ ret' = "failed to write discord message"
                /\ pc' = "returned"
                /\ marshalled' = FALSE
                /\ payload' = EmptyString
                /\ calls' = issued
           ELSE IF r.msg.isNil
           THEN /\ ret' = "nil"
                /\ pc' = "returned"
                /\ marshalled' = FALSE
                /\ payload' = EmptyString
                /\ calls' = issued
           ELSE IF j.err # "nil"
           THEN /\ ret' = "Unable to marshal payload"
                /\ pc' = "returned"
                /\ marshalled' = TRUE
                /\ payload' = EmptyString
                /\ calls' = issued
           ELSE /\ ret' = "pending"
                /\ pc' = "post"
                /\ marshalled' = TRUE
                /\ payload' = j.payload
                /\ calls' = IssuePost(issued, webhookURL, j.payload)

\* SendNotification is called with build b; applies is what the filter says of b and
\* dojoURL the DOJO_URL of the environment.  Runs to the first blocking HTTP call.
SendNotification(b, applies, dojoURL) ==
    /\ pc = "serving"
    /\ nEvents < MaxEvents
    /\ (filter = "nil" => ~applies)      \* a nil filter is never applied
    /\ nEvents' = nEvents + 1
    /\ build' = b
    /\ filterApplies' = applies
    /\ DOJO_URL' = dojoURL
    /\ IF ~Gate(filter, applies, b)
       THEN /\ ret' = "nil"
            /\ pc' = "returned"
            /\ rendered' = FALSE
            /\ marshalled' = FALSE
            /\ msg' = NilMessage
            /\ payload' = EmptyString
            /\ calls' = << >>
            /\ dojoOutcome' = "none"
            /\ postOutcome' = NoPost
       ELSE /\ rendered' = TRUE
            /\ IF DojoGetIssued(b, dojoURL)
               THEN /\ calls' = <<Get(dojoURL)>>
                    /\ pc' = "dojo"
                    /\ ret' = "pending"
                    /\ UNCHANGED <<marshalled, msg, payload, dojoOutcome, postOutcome>>
               ELSE Deliver(b, "none", << >>)
    /\ UNCHANGED <<config, filter, webhookURL, setUpErr>>

\* the http.Get of callDojo returns (a response or a transport error)
DojoReturns(outcome) ==
    /\ pc = "dojo"
    /\ Deliver(build, outcome, calls)
    /\ UNCHANGED <<config, filter, webhookURL, setUpErr, build, filterApplies, DOJO_URL, rendered,
                   nEvents>>

\* the http.Post returns
PostReturns(outcome) ==
    /\ pc = "post"
    /\ postOutcome' = outcome
    /\ ret' = PostResult(outcome)
    /\ pc' = "returned"
    /\ UNCHANGED <<config, filter, webhookURL, setUpErr, build, filterApplies, DOJO_URL, rendered,
                   marshalled, msg, payload, calls, dojoOutcome, nEvents>>

\* SendNotification has returned: its locals are gone, the framework takes the result
Returned ==
    /\ pc = "returned"
    /\ pc' = "serving"
    /\ build' = NoBuild
    /\ filterApplies' = FALSE
    /\ DOJO_URL' = EmptyString
    /\ rendered' = FALSE
    /\ marshalled' = FALSE
    /\ msg' = NilMessage
    /\ payload' = EmptyString
    /\ calls' = << >>
    /\ dojoOutcome' = "none"
    /\ postOutcome' = NoPost
    /\ ret' = "none"
    /\ UNCHANGED <<config, filter, webhookURL, setUpErr, nEvents>>

Next ==
    \/ \E in \in SetUpInputs : Main(in)
    \/ \E b \in Builds, applies \in BOOLEAN, dojoURL \in DojoURLs :
          SendNotification(b, applies, dojoURL)
    \/ \E outcome \in DojoOutcomes : DojoReturns(outcome)
    \/ \E outcome \in PostOutcomes : PostReturns(outcome)
    \/ Returned

Spec == Init /\ [][Next]_vars

\* The notifier's own steps always proceed and an http.Post on the default client
\* returns; nothing makes the server behind DOJO_URL answer.
FairSpec ==
    /\ Spec
    /\ WF_vars(\E outcome \in PostOutcomes : PostReturns(outcome))
    /\ WF_vars(Returned)

-----------------------------------------------------------------------------
(* buildMessage called directly on a new(discordNotifier), as TestBuildMessage does *)

TestInit ==
    /\ pc = "test"
    /\ config = NoConfig
    /\ filter = "nil"
    /\ webhookURL = EmptyString
    /\ setUpErr = "unset"
    /\ build \in Builds
    /\ filterApplies = FALSE
    /\ DOJO_URL \in DojoURLs
    /\ rendered = FALSE
    /\ marshalled = FALSE
    /\ msg = NilMessage
    /\ payload = EmptyString
    /\ calls = << >>
    /\ dojoOutcome = "none"
    /\ postOutcome = NoPost
    /\ ret = "none"
    /\ nEvents = 0

\* got, err := n.buildMessage(b), from its return of callDojo on
TestGot(dojo, issued) ==
    LET r == buildMessage(build, dojo)
    IN  /\ msg' = r.msg
        /\ ret' = r.err
        /\ dojoOutcome' = dojo
        /\ calls' = issued
        /\ pc' = "test_done"

TestBuildMessage ==
    /\ pc = "test"
    /\ rendered' = TRUE
    /\ IF DojoGetIssued(build, DOJO_URL)
       THEN /\ calls' = <<Get(DOJO_URL)>>
            /\ pc' = "test_dojo"
            /\ UNCHANGED <<msg, ret, dojoOutcome>>
       ELSE TestGot("none", << >>)
    /\ UNCHANGED <<config, filter, webhookURL, setUpErr, build, filterApplies, DOJO_URL,
                   marshalled, payload, postOutcome, nEvents>>

TestDojoReturns(outcome) ==
    /\ pc = "test_dojo"
    /\ TestGot(outcome, calls)
    /\ UNCHANGED <<config, filter, webhookURL, setUpErr, build, filterApplies, DOJO_URL,
                   rendered, marshalled, payload, postOutcome, nEvents>>

TestNext ==
    \/ TestBuildMessage
    \/ \E outcome \in DojoOutcomes : TestDojoReturns(outcome)

TestSpec == TestInit /\ [][TestNext]_vars

-----------------------------------------------------------------------------
(* Properties *)

Handled == {"WORKING", "SUCCESS", "FAILURE", "INTERNAL_ERROR", "TIMEOUT"}

AppName(b) == Lookup(b.Substitutions, "_APP_NAME")

\* a SendNotification call has been made and its results are still in place
InCall == pc \in {"dojo", "post", "returned"}

\* how many of the requests issued so far use the method
NumCalls(method) == Cardinality({i \in DOMAIN calls : calls[i].method = method})

RECURSIVE JoinLines(_)
JoinLines(ls) ==
    IF Len(ls) = 1 THEN ls[1] ELSE ls[1] \o <<"\n">> \o JoinLines(Tail(ls))

ExpectedLines(b) ==
    <<<<"B", "u", "i", "l", "d", " ", "I", "D", ":", " ">> \o b.Id,
      <<"S", "e", "r", "v", "i", "c", "e", ":", " ">> \o AppName(b),
      <<"E", "n", "v", "i", "r", "o", "n", "m", "e", "n", "t", ":", " ">> \o b.ProjectId,
      <<"L", "o", "g", "s", ":", " ">> \o b.LogUrl>>
        \o (IF b.Status = "SUCCESS"
            THEN <<<<"A", "c", "c", "e", "s", "s", ":", " ">> \o Lookup(b.Substitutions, "_URL")>>
            ELSE << >>)

ExpectedTitle(st) ==
    CASE st = "WORKING"        -> <<"U+1F528", " ", "B", "U", "I", "L", "D", "I", "N", "G">>
      [] st = "SUCCESS"        -> <<"U+2705", " ", "S", "U", "C", "C", "E", "S", "S">>
      [] st = "FAILURE"        -> <<"U+274C", " ", "E", "R", "R", "O", "R", " ", "-", " ", "F", "A", "I", "L", "U", "R", "E">>
      [] st = "INTERNAL_ERROR" -> <<"U+274C", " ", "E", "R", "R", "O", "R", " ", "-", " ", "I", "N", "T", "E", "R", "N", "A", "L", "_", "E", "R", "R", "O", "R">>
      [] st = "TIMEOUT"        -> <<"U+274C", " ", "E", "R", "R", "O", "R", " ", "-", " ", "T", "I", "M", "E", "O", "U", "T">>

ExpectedColor(st) ==
    CASE st = "WORKING" -> 1027128
      [] st = "SUCCESS" -> 1127128
      [] st \in {"FAILURE", "INTERNAL_ERROR", "TIMEOUT"} -> 14177041

C2_UnknownStatusSkipped ==
    (InCall /\ build.Status \notin Handled) =>
        /\ pc = "returned"
        /\ ret = "nil"
        /\ msg.isNil
        /\ ~marshalled
        /\ payload = EmptyString
        /\ calls = << >>

C2_Witness ==
    /\ pc = "returned"
    /\ rendered
    /\ build.Status = "CANCELLED"
    /\ AppName(build) = <<"m", "y", "-", "b", "a", "c", "k", "e", "n", "d", "-", "s", "v", "c">>
    /\ HasRepoSource(build)
    /\ DOJO_URL # EmptyString
    /\ ret = "nil"
    /\ calls = << >>

\* C3: when a configured filter evaluates true on the build, or _APP_NAME is absent
\* or empty, SendNotification returns nil with nothing rendered and no request
\* issued, for every status; otherwise rendering is attempted.
C3_DispatchGate ==
    InCall =>
        IF (filter # "nil" /\ filterApplies) \/ AppName(build) = EmptyString
        THEN /\ pc = "returned"
             /\ ret = "nil"
             /\ ~rendered
             /\ msg.isNil
             /\ ~marshalled
             /\ calls = << >>
        ELSE rendered

C3_Witness ==
    /\ pc = "returned"
    /\ filter = "prd"
    /\ filterApplies
    /\ build.Status = "SUCCESS"
    /\ AppName(build) = <<"m", "y", "-", "b", "a", "c", "k", "e", "n", "d", "-", "s", "v", "c">>
    /\ DOJO_URL # EmptyString
    /\ ~rendered
    /\ calls = << >>

\* C4 as stated: for a build with a source-repository reference and a handled
\* status, the single embed's description is exactly the repository name, with the
\* title and color of the status, for every repository name.
C4_RepoNameReplacesBody ==
    (pc = "test_done" /\ build.Status \in Handled /\ HasRepoSource(build)) =>
        /\ Len(msg.Embeds) = 1
        /\ msg.Embeds[1].Description = build.Source.RepoName
        /\ msg.Embeds[1].Title = ExpectedTitle(build.Status)
        /\ msg.Embeds[1].Color = ExpectedColor(build.Status)

\* C4 amended: the description is exactly the repository name when that name is not
\* empty, and stays the body of the status when the name is empty; title and color
\* stay those of the status.
C4_NonEmptyRepoNameReplacesBody ==
    (pc = "test_done" /\ build.Status \in Handled /\ HasRepoSource(build)) =>
        /\ Len(msg.Embeds) = 1
        /\ msg.Embeds[1].Description =
              IF build.Source.RepoName # EmptyString
              THEN build.Source.RepoName
              ELSE JoinLines(ExpectedLines(build))
        /\ msg.Embeds[1].Title = ExpectedTitle(build.Status)
        /\ msg.Embeds[1].Color = ExpectedColor(build.Status)

C4_Witness ==
    /\ pc = "test_done"
    /\ build.Status = "SUCCESS"
    /\ build.Source = RepoSource(<<"R">>)
    /\ Len(msg.Embeds) = 1
    /\ msg.Embeds[1].Description = <<"R">>
    /\ msg.Embeds[1].Title = <<"U+2705", " ", "S", "U", "C", "C", "E", "S", "S">>

\* C5: in a SendNotification call that passes the gate, the secondary GET is issued
\* exactly once when the status is SUCCESS, _APP_NAME contains "backend" (case
\* sensitive) and DOJO_URL is not empty, and not at all otherwise, whether or not
\* the build has a source-repository reference.  Of AppNames, "my-backend-svc" alone
\* contains "backend"; "my-Backend-svc" and "my-frontend-svc" do not.
C5_SecondaryGetCount ==
    (InCall /\ rendered) =>
        /\ NumCalls("GET") =
              IF /\ build.Status = "SUCCESS"
                 /\ AppName(build) = <<"m", "y", "-", "b", "a", "c", "k", "e", "n", "d", "-", "s", "v", "c">>
                 /\ DOJO_URL # EmptyString
              THEN 1 ELSE 0
        /\ \A i \in DOMAIN calls : calls[i].method = "GET" => calls[i].url = DOJO_URL

C5_Witness ==
    /\ pc = "returned"
    /\ build.Status = "SUCCESS"
    /\ AppName(build) = <<"m", "y", "-", "b", "a", "c", "k", "e", "n", "d", "-", "s", "v", "c">>
    /\ HasRepoSource(build)
    /\ NumCalls("GET") = 1
    /\ NumCalls("POST") = 1

\* C6: the message rendered, the payload posted, whether the POST is attempted and
\* what SendNotification returns are those of the same call with the secondary GET
\* skipped, whether the GET succeeded, failed or was skipped.
C6_SecondaryOutcomeIgnored ==
    (rendered /\ pc \in {"post", "returned"}) =>
        LET r == buildMessage(build, "none")
        IN  /\ msg = r.msg
            /\ (NumCalls("POST") = 1) <=> ~r.msg.isNil
            /\ NumCalls("POST") = 0 <=> r.msg.isNil
            /\ ~r.msg.isNil =>
                  /\ payload = Marshal(r.msg).payload
                  /\ calls[Len(calls)] = Post(webhookURL, payload)
            /\ pc = "returned" =>
                  ret = IF ~r.msg.isNil /\ postOutcome.err THEN "post error" ELSE "nil"

C6_Witness ==
    /\ pc = "returned"
    /\ dojoOutcome = "error"
    /\ NumCalls("POST") = 1
    /\ ~postOutcome.err
    /\ ret = "nil"

\* C7: once the secondary GET is in flight, the primary POST is eventually issued,
\* even if the GET never completes.
C7_PostNotBlockedByGet == (pc = "dojo") ~> (NumCalls("POST") = 1)

\* C8 as stated: whenever both the POST and the GET are issued for an event, the
\* POST is issued before the GET.
C8_PostBeforeGet ==
    \A i, j \in DOMAIN calls :
        (calls[i].method = "POST" /\ calls[j].method = "GET") => i < j

\* C8 amended: the steps occur in the order gate, render, serialization, delivery,
\* with the secondary GET issued during render: the GET, when issued, is the first
\* request and is issued before anything is serialized; the POST, when issued, is
\* the last request and follows serialization.
C8_GetBeforePost ==
    /\ \A i, j \in DOMAIN calls :
          (calls[i].method = "POST" /\ calls[j].method = "GET") => j < i
    /\ calls # << >> => rendered
    /\ pc = "dojo" => (calls = <<Get(DOJO_URL)>> /\ ~marshalled)
    /\ NumCalls("POST") > 0 => (marshalled /\ calls[Len(calls)].method = "POST")
    /\ Len(calls) <= 2

C8_Witness ==
    /\ pc = "post"
    /\ Len(calls) = 2
    /\ calls[1].method = "GET"
    /\ calls[2].method = "POST"

\* C9: for an event that passes the gate and renders a message, SendNotification
\* issues exactly one POST, and returns an error exactly when serialization failed
\* or the POST ended in a transport error: any response, whatever its status code,
\* gives nil.
C9_SinglePostNoRetry ==
    /\ NumCalls("POST") <= 1
    /\ (pc = "returned" /\ rendered /\ ~msg.isNil) =>
          /\ NumCalls("POST") = 1
          /\ ret # "nil" <=> (Marshal(msg).err # "nil" \/ postOutcome.err)
          /\ postOutcome.status \in {204, 404, 500} => ret = "nil"

C9_Witness ==
    /\ pc = "returned"
    /\ rendered
    /\ postOutcome = [err |-> FALSE, status |-> 500]
    /\ NumCalls("POST") = 1
    /\ ret = "nil"

\* C10: SetUp returns an error when the filter expression is invalid, the secret
\* reference does not resolve to a resource name or the secret cannot be fetched, and
\* nil otherwise; webhookURL is the fetched secret when SetUp returned nil and is
\* unset after a failed SetUp.
C10_SetUpErrors ==
    pc # "start" =>
        /\ setUpErr # "nil" <=>
              \/ config.Filter = "invalid"
              \/ ~config.refOk
              \/ ~config.resourceOk
              \/ ~config.secretOk
        /\ setUpErr = "nil" => (webhookURL = config.secret /\ webhookURL # EmptyString)
        /\ setUpErr # "nil" => (webhookURL = EmptyString /\ pc = "fatal")

C10_Witness ==
    /\ pc = "fatal"
    /\ config.Filter = "valid"
    /\ config.refOk
    /\ ~config.resourceOk
    /\ config.secretOk
    /\ setUpErr = "failed to find Secret for ref"
    /\ webhookURL = EmptyString

====
